---- MODULE Spec2Model ----
(***************************************************************************)
(* qrator-exporter: the Prometheus collector of collector.go.              *)
(*                                                                         *)
(* NewCollector validates the client id, pings the upstream API and builds *)
(* the collector.  Collect serialises scrapes with the embedded mutex,     *)
(* lists the domains, starts one goroutine per domain that fetches the     *)
(* domain's statistics, sets the gauges and sends them to the metric       *)
(* channel, waits for all goroutines and sends the process counters.       *)
(*                                                                         *)
(* Modelling conventions                                                   *)
(*  - JSON null is <<>>, a JSON value v is <<v>>: decoding is not the      *)
(*    identity (null decodes to the Go zero value).                        *)
(*  - A text is a sequence of one-character strings.                       *)
(*  - float64(int) is exact for every value of the model and is written    *)
(*    as the value itself.                                                 *)
(*  - ch[p] is the metric channel handed to scraper p's Collect call, as   *)
(*    the bag of what was sent on it; the registry always receives.        *)
(*    A sent gauge is recorded with the value it has when it is sent.      *)
(*  - sent[p] is the bag of HTTP requests issued on behalf of caller p     *)
(*    (caller 0 is NewCollector) during its current call.                  *)
(*  - start[p] records the two failure counters at the moment scraper p    *)
(*    acquired the mutex, and cycles counts the acquisitions; no action    *)
(*    reads them.                                                          *)
(*  - A request and the decoding of its answer are two steps; the answer   *)
(*    is held in inflight, reply[p] or the goroutine's reply in between.   *)
(*  - The account's domains have distinct ids and distinct names.          *)
(***************************************************************************)
EXTENDS Integers, Sequences, FiniteSets, Bags, TLC

VARIABLES
    clientIDText,    \* NewCollector's clientID argument
    auth,            \* NewCollector's auth argument, then c.auth
    bootpc,          \* NewCollector: "start", "ping" (probe in flight), "done"
    inflight,        \* the upstream's answer to the ping, until it is decoded
    collector,       \* "nil" or "ok": the *Collector NewCollector returned
    bootErr,         \* the error NewCollector returned ("" is nil)
    clientID,        \* c.clientID
    mutex,           \* c.Mutex: 0 when free, else the scraper holding it
    totalScrapes,    \* c.totalScrapes
    failedDomainScrapes,        \* c.failedDomainScrapes
    failedDomainStatsScrapes,   \* c.failedDomainStatsScrapes
    gauge,           \* the children of the eleven GaugeVecs, by label values
    pc,              \* per scraper: position in Collect
    qds,             \* per scraper: Collect's local qds
    listErr,         \* per scraper: Collect's local err (of getQratorDomains)
    idx,             \* per scraper: position of the range loop over qds
    wg,              \* per scraper: the WaitGroup counter
    tasks,           \* per scraper: the goroutines started by the loop
    ch,              \* per scraper: what was sent on the metric channel
    sent,            \* per caller: the HTTP requests issued in this call
    start,           \* per scraper: the failure counters when the cycle began
    reply,           \* per scraper: the answer to domains_get, until it is decoded
    cycles           \* how many times c.Lock() has returned

vars == <<clientIDText, auth, bootpc, inflight, collector, bootErr, clientID, mutex,
          totalScrapes, failedDomainScrapes, failedDomainStatsScrapes, gauge,
          pc, qds, listErr, idx, wg, tasks, ch, sent, start, reply, cycles>>

bootVars == <<clientIDText, auth, bootpc, inflight, collector, bootErr, clientID>>
counterVars == <<totalScrapes, failedDomainScrapes, failedDomainStatsScrapes>>

-----------------------------------------------------------------------------
(* Bounds *)

\* concurrent scrapes (Gather calls) of the registry
NumScrapers == 2
\* Collect calls in a run
MaxCycles == 2
\* domains of the account
MaxDomains == 2
\* length of the client id text
MaxIdLen == 2
\* distinct non-null statistics results the upstream may answer with
NumSnapshots == 1

Scrapers == 1..NumScrapers
Booter == 0
Callers == {Booter} \cup Scrapers

-----------------------------------------------------------------------------
(* JSON values *)

JNull == <<>>

JVal(v) == <<v>>

\* encoding/json into a Go string field: null leaves the zero value ""
DecodeString(j) == IF j = JNull THEN "" ELSE j[1]

-----------------------------------------------------------------------------
(* strconv.Atoi *)

Digits == {"0", "1", "2", "3", "4", "5", "6", "7", "8", "9"}

DigitVal(c) ==
    CASE c = "0" -> 0 [] c = "1" -> 1 [] c = "2" -> 2 [] c = "3" -> 3
      [] c = "4" -> 4 [] c = "5" -> 5 [] c = "6" -> 6 [] c = "7" -> 7
      [] c = "8" -> 8 [] c = "9" -> 9

RECURSIVE DecimalValue(_)
DecimalValue(s) ==
    IF Len(s) = 0 THEN 0
    ELSE 10 * DecimalValue(SubSeq(s, 1, Len(s) - 1)) + DigitVal(s[Len(s)])

\* strconv.Atoi(s): an optional sign, then at least one digit and digits
\* only.  (A value outside the int range is an error too; it takes 19
\* digits, more than any text of the model has.)
Atoi(s) ==
    LET signed == Len(s) > 0 /\ s[1] \in {"+", "-"}
        body == IF signed THEN Tail(s) ELSE s
        syntaxOK == Len(body) > 0 /\ \A n \in 1..Len(body) : body[n] \in Digits
        neg == signed /\ s[1] = "-"
    IN  IF ~syntaxOK THEN [err |-> TRUE, val |-> 0]
        ELSE [err |-> FALSE,
              val |-> IF neg THEN 0 - DecimalValue(body) ELSE DecimalValue(body)]

-----------------------------------------------------------------------------
(* The upstream API: what a POST may come back with *)

ErrorFields == {JNull, JVal(""), JVal("ACLException")}

DomainName(n) ==
    CASE n = 1 -> "www.example.com"
      [] n = 2 -> "b.example.com"
      [] n = 3 -> "c.example.com"
      [] OTHER -> "d.example.com"

FirstDomainID == 321

\* a domain object of the domains_get result
JDomain(n) == [id |-> FirstDomainID + n - 1, name |-> DomainName(n)]

RECURSIVE SubLists(_)
\* the lists of account domains, in the account's order
SubLists(n) ==
    IF n = 0 THEN {<<>>}
    ELSE SubLists(n - 1) \cup {Append(l, JDomain(n)) : l \in SubLists(n - 1)}

JStatFields ==
    <<"bsend", "brecv", "bout", "psend", "precv", "reqspeed", "reqlonger10s",
      "reqlonger07s", "reqlonger05s", "reqlonger02s", "reqall", "err50x",
      "err501", "err502", "err503", "err504", "ban", "ban_api", "ban_waf",
      "billable">>

\* a statistics_get result object whose fields all differ
JStat(base) ==
    [f \in {JStatFields[n] : n \in 1..Len(JStatFields)} |->
        base + (CHOOSE n \in 1..Len(JStatFields) : JStatFields[n] = f)]

\* the answer to a request: no answer at all (transport), a body that is
\* not JSON (wellformed = FALSE), or an envelope {result, error, id}
Transport == [transport |-> TRUE, wellformed |-> FALSE, result |-> JNull, error |-> JNull]

Truncated == [transport |-> FALSE, wellformed |-> FALSE, result |-> JNull, error |-> JNull]

Envelope(result, error) ==
    [transport |-> FALSE, wellformed |-> TRUE, result |-> result, error |-> error]

PingResponses ==
    {Transport, Truncated}
    \cup {Envelope(r, e) : r \in {JNull, JVal("pong")}, e \in ErrorFields}

DomainsResponses ==
    {Transport, Truncated}
    \cup {Envelope(r, e) : r \in {JNull} \cup {JVal(l) : l \in SubLists(MaxDomains)},
                          e \in ErrorFields}

StatsResponses ==
    {Transport, Truncated}
    \cup {Envelope(r, e) : r \in {JNull} \cup {JVal(JStat(100 * n)) : n \in 1..NumSnapshots},
                          e \in ErrorFields}

-----------------------------------------------------------------------------
(* Requests *)

\* the request without the X-Qrator-Auth header
qratorPostRequestNoAuth(methodClass, id, method) ==
    [class |-> methodClass, id |-> id, method |-> method, auth |-> ""]

\* qratorPostRequest: POST {url}/{methodClass}/{id} with the method in the
\* body and the X-Qrator-Auth header
qratorPostRequest(methodClass, id, method) ==
    [class |-> methodClass, id |-> id, method |-> method, auth |-> auth]

Issue(p, req) == sent' = [sent EXCEPT ![p] = @ (+) SetToBag({req})]

-----------------------------------------------------------------------------
(* Decoding *)

\* json into qratorDomain: ID and Name (Status and QratorIP are decoded
\* too and never read)
DecodeDomain(j) == [ID |-> j.id, Name |-> j.name]

DecodeDomains(j) ==
    IF j = JNull THEN <<>> ELSE [n \in 1..Len(j[1]) |-> DecodeDomain(j[1][n])]

GoStatFields ==
    <<"Bsend", "Brecv", "Bout", "Psend", "Precv", "Reqspeed", "Reqlonger10S",
      "Reqlonger07S", "Reqlonger05S", "Reqlonger02S", "Reqall", "Err50X",
      "Err501", "Err502", "Err503", "Err504", "Ban", "BanAPI", "BanWAF",
      "Billable">>

\* qratorDomainStat{}.Result
ZeroStat == [f \in {GoStatFields[n] : n \in 1..Len(GoStatFields)} |-> 0]

\* json into qratorDomainStat.Result, field by field after the struct tags
DecodeStat(j) ==
    IF j = JNull THEN ZeroStat
    ELSE [f \in {GoStatFields[n] : n \in 1..Len(GoStatFields)} |->
            j[1][JStatFields[CHOOSE n \in 1..Len(GoStatFields) : GoStatFields[n] = f]]]

\* qratorCheck without the test of ping.Error
qratorCheckIgnoresError(resp) ==
    IF resp.transport THEN "transport"
    ELSE IF ~resp.wellformed THEN "decode"
    ELSE ""

\* qratorCheck: the error it returns ("" is nil)
qratorCheck(resp) ==
    IF resp.transport THEN "transport"
    ELSE IF ~resp.wellformed THEN "decode"
    ELSE IF DecodeString(resp.error) # "" THEN "upstream"
    ELSE ""

\* getQratorDomains taking an empty list for a failure
getQratorDomainsEmptyIsError(resp) ==
    IF resp.transport THEN [qds |-> <<>>, err |-> "transport"]
    ELSE IF ~resp.wellformed THEN [qds |-> <<>>, err |-> "decode"]
    ELSE IF DecodeString(resp.error) # "" THEN [qds |-> <<>>, err |-> "upstream"]
    ELSE IF DecodeDomains(resp.result) = <<>> THEN [qds |-> <<>>, err |-> "upstream"]
    ELSE [qds |-> DecodeDomains(resp.result), err |-> ""]

\* getQratorDomains returning the decoded list along with an upstream error
getQratorDomainsKeepsList(resp) ==
    IF resp.transport THEN [qds |-> <<>>, err |-> "transport"]
    ELSE IF ~resp.wellformed THEN [qds |-> <<>>, err |-> "decode"]
    ELSE IF DecodeString(resp.error) # ""
    THEN [qds |-> DecodeDomains(resp.result), err |-> "upstream"]
    ELSE [qds |-> DecodeDomains(resp.result), err |-> ""]

\* getQratorDomains: ([]qratorDomain, error)
getQratorDomains(resp) ==
    IF resp.transport THEN [qds |-> <<>>, err |-> "transport"]
    ELSE IF ~resp.wellformed THEN [qds |-> <<>>, err |-> "decode"]
    ELSE IF DecodeString(resp.error) # "" THEN [qds |-> <<>>, err |-> "upstream"]
    ELSE [qds |-> DecodeDomains(resp.result), err |-> ""]

\* getQratorDomainStats: (qratorDomainStat, error)
getQratorDomainStats(resp) ==
    IF resp.transport THEN [s |-> ZeroStat, err |-> "transport"]
    ELSE IF ~resp.wellformed THEN [s |-> ZeroStat, err |-> "decode"]
    ELSE IF DecodeString(resp.error) # "" THEN [s |-> ZeroStat, err |-> "upstream"]
    ELSE [s |-> DecodeStat(resp.result), err |-> ""]

-----------------------------------------------------------------------------
(* The gauges of one domain, in the order Collect sets and sends them *)

Slot(metric, label, field) == [metric |-> metric, label |-> label, field |-> field]

Slots ==
    << Slot("bypassed_traffic", "", "Bsend"),
       Slot("incoming_traffic", "", "Brecv"),
       Slot("outgoing_traffic", "", "Bout"),
       Slot("bypassed_packets", "", "Psend"),
       Slot("incoming_packets", "", "Precv"),
       Slot("request_rate", "", "Reqspeed"),
       Slot("slow_requests_count", "0.2", "Reqlonger02S"),
       Slot("slow_requests_count", "0.5", "Reqlonger05S"),
       Slot("slow_requests_count", "0.7", "Reqlonger07S"),
       Slot("slow_requests_count", "1.0", "Reqlonger10S"),
       Slot("requests_count_total", "", "Reqall"),
       Slot("errors_count", "50X", "Err50X"),
       Slot("errors_count", "501", "Err501"),
       Slot("errors_count", "502", "Err502"),
       Slot("errors_count", "503", "Err503"),
       Slot("errors_count", "504", "Err504"),
       Slot("banned_ip_addresses_count", "Qrator", "Ban"),
       Slot("banned_ip_addresses_count", "Qrator.API", "BanAPI"),
       Slot("banned_ip_addresses_count", "WAF", "BanWAF"),
       Slot("billable_traffic", "", "Billable") >>

\* every child taken under one constant domain label
GaugeKeyNoDomain(qd, slot) == <<slot.metric, "", slot.label>>

\* every child taken with the domain name alone
GaugeKeyNoLabel(qd, slot) == <<slot.metric, qd.Name, "">>

\* vec.WithLabelValues(qd.Name[, label]): the child of the gauge vector
GaugeKey(qd, slot) == <<slot.metric, qd.Name, slot.label>>

\* what the registry receives when a metric is sent on the channel
Obs(metric, domain, label, value) ==
    [metric |-> metric, domain |-> domain, label |-> label, value |-> value]

GaugeObs(key) == Obs(key[1], key[2], key[3], gauge[key])

Send(p, o) == ch' = [ch EXCEPT ![p] = @ (+) SetToBag({o})]

-----------------------------------------------------------------------------
(* Inputs of NewCollector *)

IdAlphabet == {"7", "-", "x"}

RECURSIVE Texts(_)
Texts(n) ==
    IF n = 0 THEN {<<>>}
    ELSE Texts(n - 1) \cup {Append(t, c) : t \in Texts(n - 1), c \in IdAlphabet}

Tokens == {"12345"}

NoTask == <<>>

NoStart == [fd |-> 0, fs |-> 0]

Init ==
    /\ clientIDText \in Texts(MaxIdLen)
    /\ auth \in Tokens
    /\ bootpc = "start"
    /\ inflight = <<>>
    /\ collector = "nil"
    /\ bootErr = ""
    /\ clientID = 0
    /\ mutex = 0
    /\ totalScrapes = 0
    /\ failedDomainScrapes = 0
    /\ failedDomainStatsScrapes = 0
    /\ gauge = <<>>
    /\ pc = [p \in Scrapers |-> "idle"]
    /\ qds = [p \in Scrapers |-> <<>>]
    /\ listErr = [p \in Scrapers |-> ""]
    /\ idx = [p \in Scrapers |-> 1]
    /\ wg = [p \in Scrapers |-> 0]
    /\ tasks = [p \in Scrapers |-> NoTask]
    /\ ch = [p \in Scrapers |-> EmptyBag]
    /\ sent = [p \in Callers |-> EmptyBag]
    /\ start = [p \in Scrapers |-> NoStart]
    /\ reply = [p \in Scrapers |-> <<>>]
    /\ cycles = 0

-----------------------------------------------------------------------------
(* NewCollector *)

collectVars == <<mutex, totalScrapes, failedDomainScrapes, failedDomainStatsScrapes,
                 gauge, pc, qds, listErr, idx, wg, tasks, ch, start, reply, cycles>>

\* c.clientID, err = strconv.Atoi(clientID) fails: return nil, error
NewCollectorBadID ==
    /\ bootpc = "start"
    /\ Atoi(clientIDText).err
    /\ bootpc' = "done"
    /\ bootErr' = "validation"
    /\ UNCHANGED <<clientIDText, auth, inflight, collector, clientID, sent>>
    /\ UNCHANGED collectVars

\* the id parses: c.clientID, c.auth and c.qratorAPIURL are set and
\* qratorCheck posts the ping
NewCollectorPing ==
    /\ bootpc = "start"
    /\ ~Atoi(clientIDText).err
    /\ clientID' = Atoi(clientIDText).val
    /\ Issue(Booter, qratorPostRequest("client", Atoi(clientIDText).val, "ping"))
    /\ \E resp \in PingResponses : inflight' = <<resp>>
    /\ bootpc' = "ping"
    /\ UNCHANGED <<clientIDText, auth, collector, bootErr>>
    /\ UNCHANGED collectVars

\* qratorCheck decodes the answer; NewCollector returns nil and the error,
\* or builds the counters and gauge vectors and returns the collector
NewCollectorReturn ==
    /\ bootpc = "ping"
    /\ bootErr' = qratorCheck(inflight[1])
    /\ collector' = IF qratorCheck(inflight[1]) = "" THEN "ok" ELSE "nil"
    /\ inflight' = <<>>
    /\ bootpc' = "done"
    /\ UNCHANGED <<clientIDText, auth, clientID, sent>>
    /\ UNCHANGED collectVars


-----------------------------------------------------------------------------
(* Collect *)

Started == totalScrapes + Cardinality({p \in Scrapers : pc[p] \in {"Lock", "Inc"}})

\* the registry calls c.Collect(ch) with a fresh channel
CallCollect(p) ==
    /\ collector = "ok"
    /\ pc[p] = "idle"
    /\ Started < MaxCycles
    /\ pc' = [pc EXCEPT ![p] = "Lock"]
    /\ UNCHANGED <<mutex, gauge, qds, listErr, idx, wg, tasks, ch, sent>>
    /\ UNCHANGED counterVars
    /\ UNCHANGED <<bootVars, start, reply, cycles>>

\* Collect without the exclusion of c.Lock()
LockNoExclusion(p) ==
    /\ pc[p] = "Lock"
    /\ mutex' = p
    /\ pc' = [pc EXCEPT ![p] = "Inc"]
    /\ start' = [start EXCEPT ![p] = [fd |-> failedDomainScrapes,
                                      fs |-> failedDomainStatsScrapes]]
    /\ cycles' = cycles + 1
    /\ UNCHANGED <<gauge, qds, listErr, idx, wg, tasks, ch, sent, reply>>
    /\ UNCHANGED counterVars
    /\ UNCHANGED bootVars

\* c.Lock()
Lock(p) ==
    /\ pc[p] = "Lock"
    /\ mutex = 0
    /\ mutex' = p
    /\ pc' = [pc EXCEPT ![p] = "Inc"]
    /\ start' = [start EXCEPT ![p] = [fd |-> failedDomainScrapes,
                                      fs |-> failedDomainStatsScrapes]]
    /\ cycles' = cycles + 1
    /\ UNCHANGED <<gauge, qds, listErr, idx, wg, tasks, ch, sent, reply>>
    /\ UNCHANGED counterVars
    /\ UNCHANGED bootVars

\* the scrape counter made anew by each cycle
IncTotalFresh(p) ==
    /\ pc[p] = "Inc"
    /\ totalScrapes' = 1
    /\ pc' = [pc EXCEPT ![p] = "Domains"]
    /\ UNCHANGED <<mutex, failedDomainScrapes, failedDomainStatsScrapes, gauge,
                   qds, listErr, idx, wg, tasks, ch, sent>>
    /\ UNCHANGED <<bootVars, start, reply, cycles>>

\* c.totalScrapes.Inc()
IncTotal(p) ==
    /\ pc[p] = "Inc"
    /\ totalScrapes' = totalScrapes + 1
    /\ pc' = [pc EXCEPT ![p] = "Domains"]
    /\ UNCHANGED <<mutex, failedDomainScrapes, failedDomainStatsScrapes, gauge,
                   qds, listErr, idx, wg, tasks, ch, sent>>
    /\ UNCHANGED <<bootVars, start, reply, cycles>>

\* c.getQratorDomains() posts domains_get for the account
PostDomains(p) ==
    /\ pc[p] = "Domains"
    /\ Issue(p, qratorPostRequest("client", clientID, "domains_get"))
    /\ \E resp \in DomainsResponses : reply' = [reply EXCEPT ![p] = <<resp>>]
    /\ pc' = [pc EXCEPT ![p] = "DomainsReply"]
    /\ UNCHANGED <<mutex, gauge, qds, listErr, idx, wg, tasks, ch>>
    /\ UNCHANGED counterVars
    /\ UNCHANGED <<bootVars, start, cycles>>

\* qds, err := c.getQratorDomains(); if err != nil { c.failedDomainScrapes.Inc() }
ListDomains(p) ==
    /\ pc[p] = "DomainsReply"
    /\ LET r == getQratorDomains(reply[p][1])
       IN  /\ qds' = [qds EXCEPT ![p] = r.qds]
           /\ listErr' = [listErr EXCEPT ![p] = r.err]
           /\ failedDomainScrapes' =
                 IF r.err # "" THEN failedDomainScrapes + 1 ELSE failedDomainScrapes
    /\ reply' = [reply EXCEPT ![p] = <<>>]
    /\ idx' = [idx EXCEPT ![p] = 1]
    /\ pc' = [pc EXCEPT ![p] = "Loop"]
    /\ UNCHANGED <<mutex, totalScrapes, failedDomainStatsScrapes, gauge, wg, tasks, ch,
                   sent>>
    /\ UNCHANGED <<bootVars, start, cycles>>

\* the goroutine's qd, its position (pc, and k within the twenty Sets and
\* the twenty sends), its s and err, the result field of the body it got,
\* and the answer to its request until it is decoded
NewTask(qd) ==
    [qd |-> qd, pc |-> "fetch", k |-> 1, s |-> ZeroStat, err |-> "", json |-> JNull,
     reply |-> <<>>]

\* the loop left after its first goroutine
SpawnFirstOnly(p) ==
    /\ pc[p] = "Loop"
    /\ idx[p] <= Len(qds[p])
    /\ wg' = [wg EXCEPT ![p] = @ + 1]
    /\ tasks' = [tasks EXCEPT ![p] = Append(@, NewTask(qds[p][idx[p]]))]
    /\ idx' = [idx EXCEPT ![p] = Len(qds[p]) + 1]
    /\ UNCHANGED <<mutex, gauge, pc, qds, listErr, ch, sent>>
    /\ UNCHANGED counterVars
    /\ UNCHANGED <<bootVars, start, reply, cycles>>

\* one iteration of the range loop: wg.Add(1); go func(qd, ch, wg) {...}(qd, ch, wg)
Spawn(p) ==
    /\ pc[p] = "Loop"
    /\ idx[p] <= Len(qds[p])
    /\ wg' = [wg EXCEPT ![p] = @ + 1]
    /\ tasks' = [tasks EXCEPT ![p] = Append(@, NewTask(qds[p][idx[p]]))]
    /\ idx' = [idx EXCEPT ![p] = @ + 1]
    /\ UNCHANGED <<mutex, gauge, pc, qds, listErr, ch, sent>>
    /\ UNCHANGED counterVars
    /\ UNCHANGED <<bootVars, start, reply, cycles>>

\* Collect going on without waiting for the goroutines
WaitNoBarrier(p) ==
    /\ pc[p] = "Loop"
    /\ idx[p] > Len(qds[p])
    /\ pc' = [pc EXCEPT ![p] = "EmitTotal"]
    /\ UNCHANGED <<mutex, gauge, qds, listErr, idx, wg, tasks, ch, sent>>
    /\ UNCHANGED counterVars
    /\ UNCHANGED <<bootVars, start, reply, cycles>>

\* wg.Wait() returns
Wait(p) ==
    /\ pc[p] = "Loop"
    /\ idx[p] > Len(qds[p])
    /\ wg[p] = 0
    /\ pc' = [pc EXCEPT ![p] = "EmitTotal"]
    /\ UNCHANGED <<mutex, gauge, qds, listErr, idx, wg, tasks, ch, sent>>
    /\ UNCHANGED counterVars
    /\ UNCHANGED <<bootVars, start, reply, cycles>>

\* the gauge vectors collected whole, with every child they hold, before the
\* scrape counter is sent
EmitTotalWithAllGauges(p) ==
    /\ pc[p] = "EmitTotal"
    /\ ch' = [ch EXCEPT ![p] =
                 @ (+) SetToBag({GaugeObs(key) : key \in DOMAIN gauge}
                                \cup {Obs("exporter_scrapes_total", "", "", totalScrapes)})]
    /\ pc' = [pc EXCEPT ![p] = "EmitFailed"]
    /\ UNCHANGED <<mutex, gauge, qds, listErr, idx, wg, tasks, sent>>
    /\ UNCHANGED counterVars
    /\ UNCHANGED <<bootVars, start, reply, cycles>>

\* ch <- c.totalScrapes
EmitTotal(p) ==
    /\ pc[p] = "EmitTotal"
    /\ Send(p, Obs("exporter_scrapes_total", "", "", totalScrapes))
    /\ pc' = [pc EXCEPT ![p] = "EmitFailed"]
    /\ UNCHANGED <<mutex, gauge, qds, listErr, idx, wg, tasks, sent>>
    /\ UNCHANGED counterVars
    /\ UNCHANGED <<bootVars, start, reply, cycles>>

\* ch <- c.failedDomainScrapes
EmitFailed(p) ==
    /\ pc[p] = "EmitFailed"
    /\ Send(p, Obs("exporter_failed_domain_scrapes_total", "", "", failedDomainScrapes))
    /\ pc' = [pc EXCEPT ![p] = "Unlock"]
    /\ UNCHANGED <<mutex, gauge, qds, listErr, idx, wg, tasks, sent>>
    /\ UNCHANGED counterVars
    /\ UNCHANGED <<bootVars, start, reply, cycles>>

\* the deferred c.Unlock(); Collect returns and its locals and channel go
Unlock(p) ==
    /\ pc[p] = "Unlock"
    /\ mutex' = 0
    /\ pc' = [pc EXCEPT ![p] = "idle"]
    /\ qds' = [qds EXCEPT ![p] = <<>>]
    /\ listErr' = [listErr EXCEPT ![p] = ""]
    /\ idx' = [idx EXCEPT ![p] = 1]
    /\ tasks' = [tasks EXCEPT ![p] = NoTask]
    /\ ch' = [ch EXCEPT ![p] = EmptyBag]
    /\ sent' = [sent EXCEPT ![p] = EmptyBag]
    /\ start' = [start EXCEPT ![p] = NoStart]
    /\ UNCHANGED <<gauge, wg, reply, cycles>>
    /\ UNCHANGED counterVars
    /\ UNCHANGED bootVars

-----------------------------------------------------------------------------
(* The goroutine of one domain *)

\* the goroutine returns: the deferred wg.Done()
Done(p, t, task) ==
    /\ tasks' = [tasks EXCEPT ![p][t] = [task EXCEPT !.pc = "done"]]
    /\ wg' = [wg EXCEPT ![p] = @ - 1]

\* the error branch without its return: the goroutine goes on to the Sets
FetchFailedNoReturn(p, t, err) ==
    /\ failedDomainStatsScrapes' = failedDomainStatsScrapes + 1
    /\ tasks' = [tasks EXCEPT ![p][t] = [@ EXCEPT !.pc = "set", !.err = err,
                                                   !.reply = <<>>]]
    /\ UNCHANGED wg

\* the error branch in a goroutine that does not defer wg.Done()
FetchFailedNoDone(p, t, err) ==
    /\ failedDomainStatsScrapes' = failedDomainStatsScrapes + 1
    /\ tasks' = [tasks EXCEPT ![p][t] = [@ EXCEPT !.pc = "done", !.err = err,
                                                   !.reply = <<>>]]
    /\ UNCHANGED wg

\* a failed fetch tried again: the goroutine goes back to posting the request
FetchFailedRetries(p, t, err) ==
    /\ tasks' = [tasks EXCEPT ![p][t] = [@ EXCEPT !.pc = "fetch", !.reply = <<>>]]
    /\ UNCHANGED <<wg, failedDomainStatsScrapes>>

\* s, err := c.getQratorDomainStats(qd) fails:
\* c.failedDomainStatsScrapes.Inc(); return
FetchFailed(p, t, err) ==
    /\ failedDomainStatsScrapes' = failedDomainStatsScrapes + 1
    /\ Done(p, t, [tasks[p][t] EXCEPT !.err = err, !.reply = <<>>])

\* s, err := c.getQratorDomainStats(qd) succeeds
FetchOK(p, t, s, json) ==
    /\ tasks' = [tasks EXCEPT ![p][t] = [@ EXCEPT !.pc = "set", !.s = s, !.json = json,
                                                   !.reply = <<>>]]
    /\ UNCHANGED <<wg, failedDomainStatsScrapes>>

\* the statistics request addressed to the account instead of the domain
StatsRequestIDOfClient(qd) == clientID

\* the id getQratorDomainStats addresses its request to
StatsRequestID(qd) == qd.ID

\* c.getQratorDomainStats(qd) posts statistics_get for the domain
PostStats(p, t) ==
    /\ t \in 1..Len(tasks[p])
    /\ tasks[p][t].pc = "fetch"
    /\ Issue(p, qratorPostRequest("domain", StatsRequestID(tasks[p][t].qd),
                                  "statistics_get"))
    /\ \E resp \in StatsResponses :
          tasks' = [tasks EXCEPT ![p][t] = [@ EXCEPT !.pc = "reply", !.reply = <<resp>>]]
    /\ UNCHANGED <<mutex, gauge, pc, qds, listErr, idx, wg, ch>>
    /\ UNCHANGED counterVars
    /\ UNCHANGED <<bootVars, start, reply, cycles>>

\* s, err := c.getQratorDomainStats(qd) returns
Fetch(p, t) ==
    /\ t \in 1..Len(tasks[p])
    /\ tasks[p][t].pc = "reply"
    /\ LET resp == tasks[p][t].reply[1]
           r == getQratorDomainStats(resp)
       IN  IF r.err # "" THEN FetchFailed(p, t, r.err)
                         ELSE FetchOK(p, t, r.s, resp.result)
    /\ UNCHANGED <<mutex, totalScrapes, failedDomainScrapes, gauge, pc, qds, listErr,
                   idx, ch, sent>>
    /\ UNCHANGED <<bootVars, start, reply, cycles>>

\* the 1.0 s threshold set from the 0.2 s count
SetValueSwapped(s, k) ==
    IF Slots[k].field = "Reqlonger10S" THEN s["Reqlonger02S"] ELSE s[Slots[k].field]

\* the value the k-th Set (line 121 + k) gives its gauge
SetValue(s, k) == s[Slots[k].field]

\* c.<Vec>.WithLabelValues(qd.Name[, label]).Set(float64(s.Result.<Field>))
SetGauge(p, t) ==
    /\ t \in 1..Len(tasks[p])
    /\ tasks[p][t].pc = "set"
    /\ LET task == tasks[p][t]
           key == GaugeKey(task.qd, Slots[task.k])
       IN  /\ gauge' = (key :> SetValue(task.s, task.k)) @@ gauge
           /\ tasks' = [tasks EXCEPT ![p][t] =
                           IF task.k = Len(Slots)
                           THEN [task EXCEPT !.pc = "send", !.k = 1]
                           ELSE [task EXCEPT !.k = @ + 1]]
    /\ UNCHANGED <<mutex, pc, qds, listErr, idx, wg, ch, sent>>
    /\ UNCHANGED counterVars
    /\ UNCHANGED <<bootVars, start, reply, cycles>>

\* ch <- c.<Vec>.WithLabelValues(qd.Name[, label])
SendGauge(p, t) ==
    /\ t \in 1..Len(tasks[p])
    /\ tasks[p][t].pc = "send"
    /\ LET task == tasks[p][t]
           key == GaugeKey(task.qd, Slots[task.k])
       IN  /\ Send(p, GaugeObs(key))
           /\ IF task.k = Len(Slots)
              THEN Done(p, t, task)
              ELSE /\ tasks' = [tasks EXCEPT ![p][t] = [task EXCEPT !.k = @ + 1]]
                   /\ UNCHANGED wg
    /\ UNCHANGED <<mutex, gauge, pc, qds, listErr, idx, sent>>
    /\ UNCHANGED counterVars
    /\ UNCHANGED <<bootVars, start, reply, cycles>>

-----------------------------------------------------------------------------

TaskIds == 1..MaxDomains

Next ==
    \/ NewCollectorBadID
    \/ NewCollectorPing
    \/ NewCollectorReturn
    \/ \E p \in Scrapers : CallCollect(p)
    \/ \E p \in Scrapers : Lock(p)
    \/ \E p \in Scrapers : IncTotal(p)
    \/ \E p \in Scrapers : PostDomains(p)
    \/ \E p \in Scrapers : ListDomains(p)
    \/ \E p \in Scrapers : Spawn(p)
    \/ \E p \in Scrapers : Wait(p)
    \/ \E p \in Scrapers : EmitTotal(p)
    \/ \E p \in Scrapers : EmitFailed(p)
    \/ \E p \in Scrapers : Unlock(p)
    \/ \E p \in Scrapers, t \in TaskIds : PostStats(p, t)
    \/ \E p \in Scrapers, t \in TaskIds : Fetch(p, t)
    \/ \E p \in Scrapers, t \in TaskIds : SetGauge(p, t)
    \/ \E p \in Scrapers, t \in TaskIds : SendGauge(p, t)

Spec == Init /\ [][Next]_vars

\* every step but the registry's decision to scrape: NewCollector, Collect
\* and its goroutines go on by themselves, every HTTP call returns within
\* its timeout and the registry receives what is sent
Progress ==
    \/ NewCollectorBadID
    \/ NewCollectorPing
    \/ NewCollectorReturn
    \/ \E p \in Scrapers :
          \/ Lock(p) \/ IncTotal(p) \/ PostDomains(p) \/ ListDomains(p) \/ Spawn(p)
          \/ Wait(p) \/ EmitTotal(p) \/ EmitFailed(p) \/ Unlock(p)
    \/ \E p \in Scrapers, t \in TaskIds : PostStats(p, t) \/ Fetch(p, t)
    \/ \E p \in Scrapers, t \in TaskIds : SetGauge(p, t) \/ SendGauge(p, t)

\* (the client id is one character at most: the cycles do not read its text)
FairInit == Init /\ Len(clientIDText) <= 1

\* the scheduler runs some runnable goroutine, and sync.Mutex hands the lock
\* to a goroutine that keeps waiting for it
FairSpec ==
    /\ FairInit
    /\ [][Next]_vars
    /\ WF_vars(Progress)
    /\ \A p \in Scrapers : SF_vars(Lock(p))

-----------------------------------------------------------------------------
(* Vocabulary of the properties *)

\* the positions of Collect between c.Lock() returning and c.Unlock()
InCycle == {"Inc", "Domains", "DomainsReply", "Loop", "EmitTotal", "EmitFailed", "Unlock"}

ProcessCounters ==
    {"exporter_scrapes_total", "exporter_failed_domain_scrapes_total",
     "exporter_failed_domain_stats_scrapes_total"}

\* the goroutines of p's cycle that have been started
TasksOf(p) == 1..Len(tasks[p])

\* what p's cycle has sent so far: process counters, gauges
CountersSent(p) == {o \in BagToSet(ch[p]) : o.metric \in ProcessCounters}

GaugesSent(p) == {o \in BagToSet(ch[p]) : o.metric \notin ProcessCounters}

\* p's cycle has done nothing yet: no request, no goroutine, nothing sent
NothingDone(p) ==
    /\ sent[p] = EmptyBag
    /\ ch[p] = EmptyBag
    /\ tasks[p] = NoTask

-----------------------------------------------------------------------------
(* C1 *)

\* C1: two Collect calls never interleave.  At most one scraper is between
\* c.Lock() and c.Unlock(), and while one is there every other scraper has
\* done none of the steps of its own call: it has issued no request, started
\* no goroutine and sent nothing.
C1_NoInterleaving ==
    \A p \in Scrapers, q \in Scrapers :
        (p # q /\ pc[p] \in InCycle) =>
            /\ pc[q] \notin InCycle
            /\ NothingDone(q)

\* a second call waits at c.Lock() while the first has sent its process
\* counters and still holds the mutex
C1_Witness ==
    \E p \in Scrapers, q \in Scrapers :
        /\ p # q
        /\ pc[p] = "Unlock"
        /\ CountersSent(p) # {}
        /\ pc[q] = "Lock"

-----------------------------------------------------------------------------
(* C2 *)

\* C2: the process counters are sent last.  Once a cycle has sent a process
\* counter, every domain of its list has had its goroutine started and every
\* goroutine has returned, so no gauge of the cycle is sent after it.
C2_CountersLast ==
    \A p \in Scrapers :
        CountersSent(p) # {} =>
            /\ Len(tasks[p]) = Len(qds[p])
            /\ \A t \in TasksOf(p) : tasks[p][t].pc = "done"
            /\ wg[p] = 0

\* a cycle with two goroutines, one of which sent its gauges, has sent a
\* process counter
C2_Witness ==
    \E p \in Scrapers :
        /\ CountersSent(p) # {}
        /\ Len(tasks[p]) >= 2
        /\ GaugesSent(p) # {}

-----------------------------------------------------------------------------
(* C3 *)

\* the goroutines of p's cycle whose statistics fetch failed
FailedTasks(p) == {t \in TasksOf(p) : tasks[p][t].err # ""}

\* the gauges p's cycle has sent under the name of a domain
SentFor(p, name) == {o \in GaugesSent(p) : o.domain = name}

\* every gauge of the metric set has been sent under the name
FullSetSent(p, name) ==
    \A k \in 1..Len(Slots) :
        \E o \in SentFor(p, name) :
            o.metric = Slots[k].metric /\ o.label = Slots[k].label

\* C3: a failed statistics fetch is counted once and isolated.  In a cycle
\* the failed-statistics counter has grown by exactly the number of
\* goroutines whose fetch failed, nothing is sent under the name of a domain
\* whose fetch failed, and when the cycle ends every domain whose fetch
\* succeeded has had its full metric set sent.
C3_StatsFailureIsolated ==
    \A p \in Scrapers :
        pc[p] \in InCycle =>
            /\ failedDomainStatsScrapes = start[p].fs + Cardinality(FailedTasks(p))
            /\ \A t \in FailedTasks(p) :
                  /\ tasks[p][t].pc = "done"
                  /\ SentFor(p, tasks[p][t].qd.Name) = {}
            /\ pc[p] = "Unlock" =>
                  \A t \in TasksOf(p) \ FailedTasks(p) :
                      FullSetSent(p, tasks[p][t].qd.Name)

\* a cycle ends with one domain failed and a sibling served
C3_Witness ==
    \E p \in Scrapers :
        /\ pc[p] = "Unlock"
        /\ FailedTasks(p) # {}
        /\ TasksOf(p) \ FailedTasks(p) # {}
        /\ failedDomainStatsScrapes = start[p].fs + 1

-----------------------------------------------------------------------------
(* C4 *)

StatsRequests(p) == {r \in BagToSet(sent[p]) : r.method = "statistics_get"}

\* C4: a failed domain enumeration ends the cycle without domain metrics.
\* The failed-domain counter has grown by exactly one, no goroutine is
\* started, no statistics request is issued, no gauge is sent, wg.Wait()
\* does not block, and the cycle ends having sent the two process counters
\* of lines 167-168.
C4_ListFailure ==
    \A p \in Scrapers :
        listErr[p] # "" =>
            /\ failedDomainScrapes = start[p].fd + 1
            /\ qds[p] = <<>>
            /\ tasks[p] = NoTask
            /\ StatsRequests(p) = {}
            /\ GaugesSent(p) = {}
            /\ wg[p] = 0
            /\ pc[p] = "Unlock" =>
                  /\ Obs("exporter_scrapes_total", "", "", totalScrapes) \in CountersSent(p)
                  /\ Obs("exporter_failed_domain_scrapes_total", "", "",
                         start[p].fd + 1) \in CountersSent(p)

\* a cycle whose enumeration failed has reached its end
C4_Witness ==
    \E p \in Scrapers :
        /\ listErr[p] # ""
        /\ pc[p] = "Unlock"
        /\ failedDomainScrapes = start[p].fd + 1

-----------------------------------------------------------------------------
(* C5 *)

\* C5: every cycle sends both failure counters.  When a cycle ends, the
\* failed-domain-scrape counter and the failed-domain-statistics-scrape
\* counter have both been sent on its channel.
C5_BothFailureCountersSent ==
    \A p \in Scrapers :
        pc[p] = "Unlock" =>
            /\ \E o \in CountersSent(p) :
                  o.metric = "exporter_failed_domain_scrapes_total"
            /\ \E o \in CountersSent(p) :
                  o.metric = "exporter_failed_domain_stats_scrapes_total"

-----------------------------------------------------------------------------
(* C6 *)

\* the goroutines of p's cycle that fetched their statistics and returned
ServedTasks(p) ==
    {t \in TasksOf(p) : tasks[p][t].pc = "done" /\ tasks[p][t].err = ""}

\* how many metrics p's cycle has sent under the name, repeats counted
SentCount(p, name) == BagCardinality([o \in SentFor(p, name) |-> ch[p][o]])

\* the (metric, label) pairs p's cycle has sent under the name
SentLabels(p, name) == {<<o.metric, o.label>> : o \in SentFor(p, name)}

\* the gauges set under the name
SetLabels(name) == {<<key[1], key[3]>> : key \in {x \in DOMAIN gauge : x[2] = name}}

\* C6 as stated: a served domain has had exactly 19 gauges set and sent,
\* each with its own (metric, labels) and each once.
C6_NineteenGauges ==
    \A p \in Scrapers : \A t \in ServedTasks(p) :
        /\ SentCount(p, tasks[p][t].qd.Name) = 19
        /\ Cardinality(SentLabels(p, tasks[p][t].qd.Name)) = 19
        /\ Cardinality(SetLabels(tasks[p][t].qd.Name)) = 19

\* C6 amended: a served domain has had exactly 20 gauges set and sent, each
\* with its own (metric, labels) and each once.
C6_TwentyGauges ==
    \A p \in Scrapers : \A t \in ServedTasks(p) :
        /\ SentCount(p, tasks[p][t].qd.Name) = 20
        /\ Cardinality(SentLabels(p, tasks[p][t].qd.Name)) = 20
        /\ Cardinality(SetLabels(tasks[p][t].qd.Name)) = 20
        /\ SentLabels(p, tasks[p][t].qd.Name) = SetLabels(tasks[p][t].qd.Name)

\* two domains of one cycle have been served
C6_Witness ==
    \E p \in Scrapers : Cardinality(ServedTasks(p)) >= 2

-----------------------------------------------------------------------------
(* C7 *)

HasNonDigit(text) == \E n \in 1..Len(text) : text[n] \notin Digits

\* C7: a client id with a character that is no decimal digit is refused
\* before any request.  Once NewCollector has gone past the parse of such an
\* id, it has failed with the validation error, there is no collector and no
\* request has been issued.
C7_NonDigitRejected ==
    (bootpc # "start" /\ HasNonDigit(clientIDText)) =>
        /\ bootpc = "done"
        /\ bootErr = "validation"
        /\ collector = "nil"
        /\ sent[Booter] = EmptyBag

-----------------------------------------------------------------------------
(* C8 *)

\* the ping came back as a decodable envelope whose error field is empty
ProbeOK(resp) ==
    /\ ~resp.transport
    /\ resp.wellformed
    /\ resp.error \in {JNull, JVal("")}

PingRequests == {r \in BagToSet(sent[Booter]) : r.method = "ping"}

\* C8: construction is fail-fast on the probe.  NewCollector returns a
\* collector exactly when the id parsed and the one ping it sent came back
\* as a decodable envelope with an empty error field; otherwise it returns an
\* error and no collector; and Collect only ever runs on a collector that
\* was returned.
C8_FailFast ==
    /\ [][bootpc = "ping" =>
            /\ collector' = "ok" <=> ProbeOK(inflight[1])
            /\ collector' = "nil" <=> bootErr' # ""]_vars
    /\ [][(bootpc = "start" /\ Atoi(clientIDText).err) =>
            (bootpc' = "done" /\ collector' = "nil" /\ bootErr' # "")]_vars
    /\ [](collector = "ok" =>
            /\ bootpc = "done"
            /\ bootErr = ""
            /\ ~Atoi(clientIDText).err
            /\ BagCardinality(sent[Booter]) = 1
            /\ PingRequests = BagToSet(sent[Booter]))
    /\ [](\A p \in Scrapers : pc[p] # "idle" => collector = "ok")

\* a cycle runs on a collector whose probe succeeded
C8_Witness ==
    /\ collector = "ok"
    /\ bootErr = ""
    /\ \E p \in Scrapers : pc[p] \in InCycle

-----------------------------------------------------------------------------
(* C9 *)

DomainsRequests(p) == {r \in BagToSet(sent[p]) : r.method = "domains_get"}

ListedIDs(p) == {qds[p][n].ID : n \in 1..Len(qds[p])}

\* C9: enumeration comes first.  Whenever a cycle has started a goroutine or
\* issued a statistics request, its one domains_get request has been answered
\* without error, and every statistics request is addressed to a domain of
\* the list it returned.
C9_EnumerationFirst ==
    \A p \in Scrapers :
        (tasks[p] # NoTask \/ StatsRequests(p) # {}) =>
            /\ pc[p] \in {"Loop", "EmitTotal", "EmitFailed", "Unlock"}
            /\ listErr[p] = ""
            /\ Cardinality(DomainsRequests(p)) = 1
            /\ \A r \in DomainsRequests(p) : sent[p][r] = 1
            /\ \A r \in StatsRequests(p) : r.class = "domain" /\ r.id \in ListedIDs(p)
            /\ \A t \in TasksOf(p) : tasks[p][t].qd.ID \in ListedIDs(p)

\* statistics have been requested for both domains of a list of two
C9_Witness ==
    \E p \in Scrapers :
        /\ Len(qds[p]) = 2
        /\ Cardinality(StatsRequests(p)) = 2

-----------------------------------------------------------------------------
(* C10 *)

\* the field of the statistics_get result a gauge reports
WireField(metric, label) ==
    CASE metric = "bypassed_traffic" -> "bsend"
      [] metric = "incoming_traffic" -> "brecv"
      [] metric = "outgoing_traffic" -> "bout"
      [] metric = "bypassed_packets" -> "psend"
      [] metric = "incoming_packets" -> "precv"
      [] metric = "request_rate" -> "reqspeed"
      [] metric = "slow_requests_count" /\ label = "0.2" -> "reqlonger02s"
      [] metric = "slow_requests_count" /\ label = "0.5" -> "reqlonger05s"
      [] metric = "slow_requests_count" /\ label = "0.7" -> "reqlonger07s"
      [] metric = "slow_requests_count" /\ label = "1.0" -> "reqlonger10s"
      [] metric = "requests_count_total" -> "reqall"
      [] metric = "errors_count" /\ label = "50X" -> "err50x"
      [] metric = "errors_count" /\ label = "501" -> "err501"
      [] metric = "errors_count" /\ label = "502" -> "err502"
      [] metric = "errors_count" /\ label = "503" -> "err503"
      [] metric = "errors_count" /\ label = "504" -> "err504"
      [] metric = "banned_ip_addresses_count" /\ label = "Qrator" -> "ban"
      [] metric = "banned_ip_addresses_count" /\ label = "Qrator.API" -> "ban_api"
      [] metric = "banned_ip_addresses_count" /\ label = "WAF" -> "ban_waf"
      [] metric = "billable_traffic" -> "billable"
      [] OTHER -> "none"

\* the value of a field of a statistics_get result (a null result has none:
\* the gauges report zero)
WireValue(json, f) == IF json = JNull THEN 0 ELSE json[1][f]

\* C10: a sent gauge carries the value fetched for its own domain in this
\* cycle.  Every gauge a cycle has sent is labelled with the name of a domain
\* whose goroutine fetched its statistics in this cycle, and its value is the
\* field of that goroutine's statistics result the metric reports.
C10_ValuesOfOwnSnapshot ==
    \A p \in Scrapers : \A o \in GaugesSent(p) :
        \E t \in TasksOf(p) :
            /\ tasks[p][t].qd.Name = o.domain
            /\ tasks[p][t].err = ""
            /\ tasks[p][t].pc \in {"send", "done"}
            /\ WireField(o.metric, o.label) # "none"
            /\ o.value = WireValue(tasks[p][t].json, WireField(o.metric, o.label))

\* two domains with different statistics have been served in one cycle, and
\* the 1.0 s gauge of one carries its reqlonger10s
C10_Witness ==
    \E p \in Scrapers : \E t \in ServedTasks(p), u \in ServedTasks(p) :
        /\ tasks[p][t].json # tasks[p][u].json
        /\ tasks[p][t].json # JNull
        /\ Obs("slow_requests_count", tasks[p][t].qd.Name, "1.0",
               tasks[p][t].json[1]["reqlonger10s"]) \in GaugesSent(p)

-----------------------------------------------------------------------------
(* C11 *)

\* the cycles that hold the mutex and have not yet counted themselves
NotYetCounted == {p \in Scrapers : pc[p] = "Inc"}

\* C11: the scrape counter counts the cycles.  It equals the number of
\* cycles started, less those that hold the mutex and are about to increment
\* it, whatever the cycles' outcomes; and no step lowers the scrape counter
\* or either failure counter.
C11_ScrapesCounted ==
    /\ [](totalScrapes = cycles - Cardinality(NotYetCounted))
    /\ [][/\ totalScrapes' >= totalScrapes
          /\ failedDomainScrapes' >= failedDomainScrapes
          /\ failedDomainStatsScrapes' >= failedDomainStatsScrapes]_vars

\* a second cycle has been counted after a cycle that failed a domain list
\* and a statistics fetch were counted
C11_Witness ==
    /\ cycles = 2
    /\ totalScrapes = 2
    /\ failedDomainScrapes >= 1
    /\ failedDomainStatsScrapes >= 1

-----------------------------------------------------------------------------
(* C12 *)

\* the statistics_get requests p's cycle has issued for a domain id, repeats
\* counted
StatsRequestCount(p, id) ==
    BagCardinality([r \in {x \in StatsRequests(p) : x.id = id} |-> sent[p][r]])

DomainsRequestCount(p) ==
    BagCardinality([r \in DomainsRequests(p) |-> sent[p][r]])

\* the goroutines of p's cycle that have posted their request
PostedTasks(p) == {t \in TasksOf(p) : tasks[p][t].pc # "fetch"}

\* C12: nothing is retried.  A cycle has issued one domains_get request to
\* its account once it is past the enumeration and none before; it has
\* issued one statistics_get request to /domain/{id} for each goroutine that
\* has posted, failed or not, and none for any other id; and it issues
\* nothing else, so that a cycle ends with one request more than it listed
\* domains.
C12_NoRetry ==
    \A p \in Scrapers :
        /\ DomainsRequestCount(p) =
              IF pc[p] \in InCycle \ {"Inc", "Domains"} THEN 1 ELSE 0
        /\ \A r \in DomainsRequests(p) : r.class = "client" /\ r.id = clientID
        /\ \A t \in TasksOf(p) :
              StatsRequestCount(p, tasks[p][t].qd.ID) =
                  IF t \in PostedTasks(p) THEN 1 ELSE 0
        /\ \A r \in StatsRequests(p) :
              /\ r.class = "domain"
              /\ \E t \in PostedTasks(p) : tasks[p][t].qd.ID = r.id
        /\ BagToSet(sent[p]) = DomainsRequests(p) \cup StatsRequests(p)
        /\ pc[p] = "Unlock" => BagCardinality(sent[p]) = 1 + Len(qds[p])

\* a cycle over two domains ends with a failed and a served fetch, three
\* requests in all
C12_Witness ==
    \E p \in Scrapers :
        /\ pc[p] = "Unlock"
        /\ Len(qds[p]) = 2
        /\ FailedTasks(p) # {}
        /\ ServedTasks(p) # {}
        /\ BagCardinality(sent[p]) = 3

-----------------------------------------------------------------------------
(* C13 *)

\* how many of its Sets a goroutine has done
SetsDone(task) ==
    CASE task.pc = "set" -> task.k - 1
      [] task.pc \in {"send", "done"} /\ task.err = "" -> Len(Slots)
      [] OTHER -> 0

\* the gauge children a goroutine of p's cycle has written
WrittenBy(p, t) ==
    {GaugeKey(tasks[p][t].qd, Slots[k]) : k \in 1..SetsDone(tasks[p][t])}

\* C13: the goroutines of a cycle write disjoint gauges.  Two goroutines of
\* one cycle are for domains of different names, every child a goroutine
\* has written exists and carries its own domain's name, and no child has
\* been written by two goroutines.
C13_DisjointLabelSets ==
    \A p \in Scrapers : \A t \in TasksOf(p), u \in TasksOf(p) :
        /\ WrittenBy(p, t) \subseteq DOMAIN gauge
        /\ \A key \in WrittenBy(p, t) : key[2] = tasks[p][t].qd.Name
        /\ t # u =>
              /\ tasks[p][t].qd.Name # tasks[p][u].qd.Name
              /\ WrittenBy(p, t) \cap WrittenBy(p, u) = {}

\* two goroutines of a cycle are both in the middle of their Sets
C13_Witness ==
    \E p \in Scrapers : \E t \in TasksOf(p), u \in TasksOf(p) :
        /\ t # u
        /\ tasks[p][t].pc = "set" /\ tasks[p][t].k > 1
        /\ tasks[p][u].pc = "set" /\ tasks[p][u].k > 1

-----------------------------------------------------------------------------
(* C14 *)

\* the request failed, the body is no envelope, or the envelope's error
\* field is not empty
Rejected(resp) ==
    \/ resp.transport
    \/ ~resp.wellformed
    \/ resp.error \notin {JNull, JVal("")}

\* the Go list is the result array of the envelope, entry by entry
SameList(list, result) ==
    IF result = JNull THEN list = <<>>
    ELSE /\ Len(list) = Len(result[1])
         /\ \A n \in 1..Len(list) :
               /\ list[n].ID = result[1][n].id
               /\ list[n].Name = result[1][n].name

\* p's cycle has listed its domains
Listed(p) == pc[p] \in {"Loop", "EmitTotal", "EmitFailed", "Unlock"}

\* C14: the enumeration fails exactly on a failed request, an undecodable
\* body or a non-empty error field, and otherwise returns the result array
\* as it came; and an empty list is a success: such a cycle increments
\* neither failure counter, starts no goroutine, issues no statistics request
\* and ends having sent the process counters only.
C14_ListDomains ==
    /\ [][\A p \in Scrapers :
            (pc[p] = "DomainsReply" /\ pc'[p] # "DomainsReply") =>
                /\ listErr'[p] # "" <=> Rejected(reply[p][1])
                /\ listErr'[p] = "" => SameList(qds'[p], reply[p][1].result)]_vars
    /\ [](\A p \in Scrapers :
            (Listed(p) /\ listErr[p] = "" /\ qds[p] = <<>>) =>
                /\ failedDomainScrapes = start[p].fd
                /\ failedDomainStatsScrapes = start[p].fs
                /\ tasks[p] = NoTask
                /\ StatsRequests(p) = {}
                /\ GaugesSent(p) = {}
                /\ pc[p] = "Unlock" =>
                      (CountersSent(p) # {} /\ BagToSet(ch[p]) = CountersSent(p)))

\* a cycle whose enumeration answered with an empty array has ended
C14_Witness ==
    \E p \in Scrapers :
        /\ pc[p] = "Unlock"
        /\ listErr[p] = ""
        /\ qds[p] = <<>>
        /\ ch[p] # EmptyBag

-----------------------------------------------------------------------------
(* C15 *)

\* the upstream answered with an envelope whose error field is not empty
UpstreamRejects(resp) ==
    /\ ~resp.transport
    /\ resp.wellformed
    /\ resp.error \notin {JNull, JVal("")}

\* C15: every request carries the token NewCollector was given, which never
\* changes, and an answer with a non-empty error field makes the operation
\* fail with the upstream error: NewCollector returns no collector, the
\* enumeration fails and the statistics fetch fails.
C15_TokenAndRejection ==
    /\ [](\A c \in Callers : \A r \in BagToSet(sent[c]) : r.auth = auth)
    /\ [][auth' = auth]_vars
    /\ [][(bootpc = "ping" /\ UpstreamRejects(inflight[1])) =>
            (bootErr' = "upstream" /\ collector' = "nil")]_vars
    /\ [][\A p \in Scrapers :
            (pc[p] = "DomainsReply" /\ pc'[p] # "DomainsReply"
                /\ UpstreamRejects(reply[p][1])) =>
                listErr'[p] = "upstream"]_vars
    /\ [][\A p \in Scrapers : \A t \in TasksOf(p) :
            (tasks[p][t].pc = "reply" /\ UpstreamRejects(tasks[p][t].reply[1])) =>
                /\ t \in 1..Len(tasks'[p])
                /\ \/ tasks'[p][t] = tasks[p][t]
                   \/ tasks'[p][t].err = "upstream" /\ tasks'[p][t].pc = "done"]_vars

\* a statistics request carrying the token was answered with an error field
\* and the fetch failed with the upstream error, after the ping and the
\* enumeration carried it too
C15_Witness ==
    \E p \in Scrapers : \E t \in TasksOf(p) :
        /\ tasks[p][t].err = "upstream"
        /\ \E r \in StatsRequests(p) : r.auth = auth /\ r.id = tasks[p][t].qd.ID
        /\ \E r \in BagToSet(sent[Booter]) : r.auth = auth

-----------------------------------------------------------------------------
(* C16 *)

\* the goroutines of p's cycle that have not returned
RunningTasks(p) == {t \in TasksOf(p) : tasks[p][t].pc # "done"}

\* C16: every cycle ends.  The WaitGroup counter is the number of started
\* goroutines that have not returned (each signals once, on every path);
\* a cycle that holds the mutex eventually returns and releases it; and a
\* Collect call waiting for the mutex eventually gets it.
C16_CycleCompletes ==
    /\ [](\A p \in Scrapers : wg[p] = Cardinality(RunningTasks(p)))
    /\ \A p \in Scrapers : (pc[p] \in InCycle) ~> (pc[p] = "idle" /\ mutex # p)
    /\ \A p \in Scrapers : (pc[p] = "Lock") ~> (pc[p] \in InCycle)

\* a call waits for the mutex while the cycle that holds it has a failed
\* enumeration behind it, or a failed fetch and a running goroutine
C16_Witness ==
    \E p \in Scrapers, q \in Scrapers :
        /\ pc[q] = "Lock"
        /\ mutex = p
        /\ FailedTasks(p) # {}
        /\ RunningTasks(p) # {}

-----------------------------------------------------------------------------
(* C17 *)

\* the names under which some gauge child exists, from this cycle or an
\* earlier one
KnownNames == {key[2] : key \in DOMAIN gauge}

\* the goroutines of p's cycle that fetched statistics for the name
FreshFor(p, name) ==
    {t \in TasksOf(p) : tasks[p][t].qd.Name = name /\ tasks[p][t].err = ""
                          /\ tasks[p][t].pc \in {"set", "send", "done"}}

\* C17: nothing of an earlier cycle is sent.  Under a name whose gauges
\* exist but for which this cycle has fetched no statistics (its fetch
\* failed, is still out, or the domain is not listed) the cycle has sent
\* nothing; and what it has sent under a name it did fetch is the result of
\* this cycle's fetch, whatever the gauges held before.
C17_NoStaleObservation ==
    \A p \in Scrapers : \A name \in KnownNames \cup {o.domain : o \in GaugesSent(p)} :
        /\ FreshFor(p, name) = {} => SentFor(p, name) = {}
        /\ \A t \in FreshFor(p, name) : \A o \in SentFor(p, name) :
              o.value = WireValue(tasks[p][t].json, WireField(o.metric, o.label))

\* a cycle ends having sent nothing under a name whose gauges an earlier
\* cycle set, and new values under another name an earlier cycle had set
\* to different ones
C17_Witness ==
    \E p \in Scrapers :
        /\ pc[p] = "Unlock"
        /\ cycles = 2
        /\ \E name \in KnownNames : FreshFor(p, name) = {} /\ SentFor(p, name) = {}
        /\ \E t \in ServedTasks(p) : tasks[p][t].json = JNull

-----------------------------------------------------------------------------
(* C18 *)

\* the goroutines of p whose request is out and not yet answered
InFlight(p) == {t \in TasksOf(p) : tasks[p][t].pc = "reply"}

\* the next step of goroutine t of p
TaskStep(p, t) == PostStats(p, t) \/ Fetch(p, t) \/ SetGauge(p, t) \/ SendGauge(p, t)

\* C18: one goroutine per listed domain and no cap.  While the loop runs
\* there is one goroutine for each domain it has passed, in the order of the
\* list; when Collect waits, and from then to the end of the cycle, there
\* are exactly as many goroutines as listed domains, one for each; outside
\* a cycle there is none.  A goroutine that has not finished can always
\* take its next step, whatever the others have done: nothing orders the
\* fetches, completions and sends of different domains.
C18_OneTaskPerDomain ==
    \A p \in Scrapers :
        /\ pc[p] = "Loop" => Len(tasks[p]) = idx[p] - 1 /\ idx[p] <= Len(qds[p]) + 1
        /\ pc[p] \in {"EmitTotal", "EmitFailed", "Unlock"} => Len(tasks[p]) = Len(qds[p])
        /\ pc[p] \notin {"Loop", "EmitTotal", "EmitFailed", "Unlock"} => tasks[p] = <<>>
        /\ \A t \in TasksOf(p) : tasks[p][t].qd = qds[p][t]
        /\ \A t \in TasksOf(p) : tasks[p][t].pc # "done" => ENABLED TaskStep(p, t)

\* Collect waits with the fetches of all the listed domains out at once
C18_Witness ==
    \E p \in Scrapers :
        /\ pc[p] = "Loop"
        /\ Len(qds[p]) = MaxDomains
        /\ idx[p] > Len(qds[p])
        /\ InFlight(p) = 1..MaxDomains

====
